---- MODULE Spec2Model ----
(***************************************************************************)
(* The Socket.IO connection-state coordinator of the chat server           *)
(* (src/unnamed/part_001, the extended server with the stranger pairing;   *)
(* src/server.js is the same room code without it).                        *)
(*                                                                         *)
(* Node runs every handler to its next `await` without interruption, so    *)
(* each action below is one such synchronous segment: a whole handler, or  *)
(* the part of an async handler between two awaits on the lowdb store.     *)
(*                                                                         *)
(* Handlers are written as operators from a state record to a state        *)
(* record, so that they can be composed (a handler run twice) as well as   *)
(* taken as steps.  The field `out` collects, in order, the events the     *)
(* segment emits.                                                          *)
(***************************************************************************)
EXTENDS Integers, Sequences, FiniteSets, Bags, TLC

VARIABLES
    status,        \* socket id -> "new" | "connected" | "disconnected" | "rejected"
    currentRoom,   \* socket id -> the handler closure's `let currentRoom`
    roomMembers,   \* Map<room, Set<socket.id>>
    rooms,         \* socket id -> the Socket.IO adapter rooms the socket has joined
    waitingQueue,  \* Set<socket.id>, kept in insertion order as a JS Set is
    data,          \* socket id -> socket.data {strangerRoom, partnerId}
    dbData,        \* db.data.messages, the in-memory copy of the store
    dbFile,        \* the messages in db.json
    reads,         \* handlers suspended on `await db.read()` (a bag)
    writes,        \* handlers suspended on `await db.write()`, in call order
    out,           \* the events emitted by the last segment, in order
    lastPresence   \* socket id -> the latest presence event its client received

vars == <<status, currentRoom, roomMembers, rooms, waitingQueue, data,
          dbData, dbFile, reads, writes, out, lastPresence>>

----------------------------------------------------------------------------
(* Bounds of the model. *)

\* Sockets that ever connect.
NumConns == 3
\* Sockets that connect where the group chat, with its store, is in play.
GroupConns == 2
\* Handlers suspended on the store at the same time.
MaxTasks == 2
\* Chat messages in the store or on their way to it.
MaxMsgs == 2
\* The same two where the whole server is in play.
FullTasks == 1
FullMsgs == 1
\* Largest value Date.now() returns.
MaxClock == 1
\* Sockets that connect where the store starts with messages in it.
BacklogConns == 1
\* Messages the store may start with beyond the cap of a backlog.
StoreExtra == 6

Conns == 1..NumConns

----------------------------------------------------------------------------
(* JavaScript values. *)

\* A string is the first `len` characters of `pat` repeated for ever, which
\* makes slice(0, n) computable: it keeps pat and cuts len.
Str(pat, len) == [pat |-> pat, len |-> len]
Null == [pat |-> "null", len |-> -1]
Undefined == [pat |-> "undefined", len |-> -1]
EmptyString == Str("", 0)
\* [] : an object (truthy) whose String() is "".
EmptyArray == [pat |-> "[]", len |-> -2]

IsString(v) == v.len >= 0
\* ToBoolean: null, undefined and "" are falsy; non-empty strings and every
\* object are truthy.
Truthy(v) == v.len > 0 \/ v = EmptyArray
\* String(v)
String(v) ==
    IF IsString(v) THEN v
    ELSE IF v = EmptyArray THEN EmptyString
    ELSE IF v = Null THEN Str("null", 4)
    ELSE Str("undefined", 9)
\* s.slice(0, n)
Slice(s, n) == Str(s.pat, IF s.len < n THEN s.len ELSE n)

RoomCap == 50
TextCap == 2000
General == Str("general", 7)

\* String(room || 'general').slice(0, 50)
safeRoom(room) == Slice(String(IF Truthy(room) THEN room ELSE General), RoomCap)
\* String(text ?? '').slice(0, 2000)
safeText(text) ==
    Slice(String(IF text = Null \/ text = Undefined THEN EmptyString ELSE text), TextCap)

\* partnerId = null
NoId == 0
\* socket.data before the first pairing, and after a teardown
NoData == [strangerRoom |-> Null, partnerId |-> NoId]
\* `stranger-${nanoid()}` for the k-th identifier nanoid() hands out
StrangerRoomName(k) == Str("stranger-" \o ToString(k), 30)
\* nanoid(): an identifier in use nowhere (identifiers are opaque, so the
\* least one not in use stands for a fresh one)
nanoid(used) == CHOOSE k \in 1..(Cardinality(used) + 1) : k \notin used

\* sess.user.username of the session that socket c presents
UserName(c) == Str("user" \o ToString(c), 5)
NoSession == [user |-> Null]
SessionOf(c) == [user |-> [id |-> c, username |-> UserName(c)]]

----------------------------------------------------------------------------
(* The state as a record, and the Map and Set operations used on it. *)

St == [status |-> status, currentRoom |-> currentRoom, roomMembers |-> roomMembers,
       rooms |-> rooms, waitingQueue |-> waitingQueue, data |-> data,
       dbData |-> dbData, dbFile |-> dbFile, reads |-> reads, writes |-> writes,
       out |-> <<>>]

\* what the client of socket c last saw as presence, once the events of the
\* segment have reached it; a closed socket has no client.  The clients
\* watched are those in the domain of lastPresence.
Seen(S, c) ==
    LET at == {i \in 1..Len(S.out) : S.out[i].to = c /\ S.out[i].ev = "presence"}
    IN IF S.status[c] # "connected" THEN [none |-> TRUE]
       ELSE IF at = {} THEN lastPresence[c]
       ELSE S.out[CHOOSE i \in at : \A j \in at : j <= i].arg

Commit(S) ==
    /\ lastPresence' = [c \in DOMAIN lastPresence |-> Seen(S, c)]
    /\ status' = S.status
    /\ currentRoom' = S.currentRoom
    /\ roomMembers' = S.roomMembers
    /\ rooms' = S.rooms
    /\ waitingQueue' = S.waitingQueue
    /\ data' = S.data
    /\ dbData' = S.dbData
    /\ dbFile' = S.dbFile
    /\ reads' = S.reads
    /\ writes' = S.writes
    /\ out' = S.out

MapHas(m, k) == k \in DOMAIN m
MapSet(m, k, v) == [x \in DOMAIN m \cup {k} |-> IF x = k THEN v ELSE m[x]]
MapDelete(m, k) == [x \in DOMAIN m \ {k} |-> m[x]]
EmptyMap == [x \in {} |-> {}]

SeqHas(q, x) == \E i \in 1..Len(q) : q[i] = x
\* Set.prototype.add: an element already present keeps its place
SetAdd(q, x) == IF SeqHas(q, x) THEN q ELSE Append(q, x)
\* Set.prototype.delete
SetDelete(q, x) == SelectSeq(q, LAMBDA y : y # x)

\* io.sockets.sockets.get(id) is defined, and socket.connected: Socket.IO
\* removes a socket from the namespace and clears `connected` together,
\* before it fires 'disconnect'.
IsConnected(S, c) == c \in Conns /\ S.status[c] = "connected"

----------------------------------------------------------------------------
(* Event Broadcaster. *)

Event(to, ev, arg) == [to |-> to, ev |-> ev, arg |-> arg]
NoArg == [none |-> TRUE]

\* the connected sockets in adapter room `room`, by ascending id
Audience(S, room, except) ==
    SelectSeq([i \in 1..NumConns |-> i],
              LAMBDA c : IsConnected(S, c) /\ room \in S.rooms[c] /\ c \notin except)

\* socket.emit(ev, arg)
Emit(S, c, ev, arg) == [S EXCEPT !.out = @ \o <<Event(c, ev, arg)>>]
\* io.to(room).emit(ev, arg)
EmitRoom(S, room, ev, arg) ==
    LET a == Audience(S, room, {})
    IN [S EXCEPT !.out = @ \o [i \in 1..Len(a) |-> Event(a[i], ev, arg)]]
\* socket.to(room).emit(ev, arg)
EmitRoomExcept(S, c, room, ev, arg) ==
    LET a == Audience(S, room, {c})
    IN [S EXCEPT !.out = @ \o [i \in 1..Len(a) |-> Event(a[i], ev, arg)]]

\* socket.join(room): Socket.IO makes join a no-op once the socket has closed
SocketJoin(S, c, room) ==
    IF IsConnected(S, c) THEN [S EXCEPT !.rooms[c] = @ \cup {room}] ELSE S
\* socket.leave(room)
SocketLeave(S, c, room) == [S EXCEPT !.rooms[c] = @ \ {room}]

----------------------------------------------------------------------------
(* Room Directory. *)

joinRoom(S, c, room) ==
    LET rm == IF MapHas(S.roomMembers, room) THEN S.roomMembers
              ELSE MapSet(S.roomMembers, room, {})
    IN SocketJoin([S EXCEPT !.roomMembers = MapSet(rm, room, rm[room] \cup {c})], c, room)

leaveRoom(S, c, room) ==
    IF ~Truthy(room) THEN S
    ELSE LET S1 == IF MapHas(S.roomMembers, room)
                   THEN LET set == S.roomMembers[room] \ {c}
                        IN [S EXCEPT !.roomMembers =
                               IF set = {} THEN MapDelete(@, room) ELSE MapSet(@, room, set)]
                   ELSE S
         IN SocketLeave(S1, c, room)

getUserCount(S, room) ==
    IF MapHas(S.roomMembers, room) THEN Cardinality(S.roomMembers[room]) ELSE 0

\* `${user.username} left the room.` and the other notices
LeftNotice(c) == [text |-> "left the room.", username |-> UserName(c)]
JoinedNotice(c) == [text |-> "joined the room.", username |-> UserName(c)]
WelcomeNotice(c, room) == [text |-> "Welcome! You joined #", username |-> UserName(c), room |-> room]
PartnerGoneNotice == [text |-> "Your partner has disconnected."]
Presence(S, room) == [room |-> room, count |-> getUserCount(S, room)]

\* the leave half of the join and disconnect handlers
leaveAndNotify(S, c) ==
    LET room == S.currentRoom[c]
        S1 == leaveRoom(S, c, room)
        S2 == EmitRoom(S1, room, "systemMessage", LeftNotice(c))
    IN EmitRoom(S2, room, "presence", Presence(S2, room))

----------------------------------------------------------------------------
(* Pairing Pool. *)

\* the nanoid() identifiers still held somewhere: by a pairing room or a message
MsgsOf(S) ==
    {S.dbData[i] : i \in 1..Len(S.dbData)} \cup {S.dbFile[i] : i \in 1..Len(S.dbFile)}
    \cup {t.msg : t \in {u \in BagToSet(S.reads) : u.h = "chatMessage"}}
    \cup {S.writes[i].msg : i \in 1..Len(S.writes)}
UsedIds(S) ==
    {k \in 1..(NumConns + MaxMsgs + 1) :
        \/ \E c \in Conns : \/ StrangerRoomName(k) \in S.rooms[c]
                            \/ S.data[c].strangerRoom = StrangerRoomName(k)
        \/ \E m \in MsgsOf(S) : m.id = k}

\* handleStrangerLeave that forgets the partner's side of the link
handleStrangerLeaveOneSided(S, leaver) ==
    LET room == S.data[leaver].strangerRoom
    IN IF ~Truthy(room) THEN S
       ELSE LET S1 == Emit(S, leaver, "youDisconnected", NoArg)
                S3 == SocketLeave(S1, leaver, room)
            IN [S3 EXCEPT !.data[leaver] = NoData]

\* handleStrangerLeave that takes the leaver out of its group room as well
handleStrangerLeaveLeavesRoom(S, leaver) ==
    LET room == S.data[leaver].strangerRoom
        partnerId == S.data[leaver].partnerId
    IN IF ~Truthy(room) THEN S
       ELSE LET S1 == Emit(S, leaver, "youDisconnected", NoArg)
                S2 == IF partnerId # NoId /\ IsConnected(S1, partnerId)
                      THEN LET P1 == Emit(S1, partnerId, "strangerLeft", NoArg)
                               P2 == SocketLeave(P1, partnerId, room)
                           IN [P2 EXCEPT !.data[partnerId] = NoData]
                      ELSE S1
                S3 == SocketLeave(S2, leaver, room)
            IN leaveRoom([S3 EXCEPT !.data[leaver] = NoData], leaver, S3.currentRoom[leaver])

\* handleStrangerLeave that puts the partner back into the waiting set
handleStrangerLeaveRequeuesPartner(S, leaver) ==
    LET room == S.data[leaver].strangerRoom
        partnerId == S.data[leaver].partnerId
    IN IF ~Truthy(room) THEN S
       ELSE LET S1 == Emit(S, leaver, "youDisconnected", NoArg)
                S2 == IF partnerId # NoId /\ IsConnected(S1, partnerId)
                      THEN LET P1 == Emit(S1, partnerId, "strangerLeft", NoArg)
                               P2 == SocketLeave(P1, partnerId, room)
                           IN [P2 EXCEPT !.data[partnerId] = NoData,
                                         !.waitingQueue = SetAdd(@, partnerId)]
                      ELSE S1
                S3 == SocketLeave(S2, leaver, room)
            IN [S3 EXCEPT !.data[leaver] = NoData]

handleStrangerLeave(S, leaver) ==
    LET room == S.data[leaver].strangerRoom
        partnerId == S.data[leaver].partnerId
    IN IF ~Truthy(room) THEN S
       ELSE LET S1 == Emit(S, leaver, "youDisconnected", NoArg)
                S2 == IF partnerId # NoId /\ IsConnected(S1, partnerId)
                      THEN LET P1 == Emit(S1, partnerId, "strangerLeft", NoArg)
                               P2 == SocketLeave(P1, partnerId, room)
                           IN [P2 EXCEPT !.data[partnerId] = NoData]
                      ELSE S1
                S3 == SocketLeave(S2, leaver, room)
            IN [S3 EXCEPT !.data[leaver] = NoData]

\* findStranger that leaves the candidate in the waiting set
findStrangerKeepsCandidate(S, c) ==
    LET S1 == IF Truthy(S.data[c].strangerRoom) THEN handleStrangerLeave(S, c) ELSE S
    IN IF Len(S1.waitingQueue) > 0
       THEN LET partnerId == Head(S1.waitingQueue)
                S2 == S1
            IN IF ~IsConnected(S2, partnerId)
               THEN Emit([S2 EXCEPT !.waitingQueue = SetAdd(@, c)], c, "waitingStranger", NoArg)
               ELSE LET strangerRoom == StrangerRoomName(nanoid(UsedIds(S2)))
                        S3 == SocketJoin(SocketJoin(S2, partnerId, strangerRoom), c, strangerRoom)
                        S4 == [S3 EXCEPT !.data[partnerId] =
                                  [strangerRoom |-> strangerRoom, partnerId |-> c]]
                        S5 == [S4 EXCEPT !.data[c] =
                                  [strangerRoom |-> strangerRoom, partnerId |-> partnerId]]
                    IN EmitRoom(S5, strangerRoom, "strangerFound", NoArg)
       ELSE Emit([S1 EXCEPT !.waitingQueue = SetAdd(@, c)], c, "waitingStranger", NoArg)

\* findStranger that tells only the requester of the match
findStrangerTellsRequester(S, c) ==
    LET S1 == IF Truthy(S.data[c].strangerRoom) THEN handleStrangerLeave(S, c) ELSE S
    IN IF Len(S1.waitingQueue) > 0
       THEN LET partnerId == Head(S1.waitingQueue)
                S2 == [S1 EXCEPT !.waitingQueue = SetDelete(@, partnerId)]
            IN IF ~IsConnected(S2, partnerId)
               THEN Emit([S2 EXCEPT !.waitingQueue = SetAdd(@, c)], c, "waitingStranger", NoArg)
               ELSE LET strangerRoom == StrangerRoomName(nanoid(UsedIds(S2)))
                        S3 == SocketJoin(SocketJoin(S2, partnerId, strangerRoom), c, strangerRoom)
                        S4 == [S3 EXCEPT !.data[partnerId] =
                                  [strangerRoom |-> strangerRoom, partnerId |-> c]]
                        S5 == [S4 EXCEPT !.data[c] =
                                  [strangerRoom |-> strangerRoom, partnerId |-> partnerId]]
                    IN Emit(S5, c, "strangerFound", NoArg)
       ELSE Emit([S1 EXCEPT !.waitingQueue = SetAdd(@, c)], c, "waitingStranger", NoArg)

\* findStranger that does not leave the link the requester still holds
findStrangerSkipsTeardown(S, c) ==
    LET S1 == S
    IN IF Len(S1.waitingQueue) > 0
       THEN LET partnerId == Head(S1.waitingQueue)
                S2 == [S1 EXCEPT !.waitingQueue = SetDelete(@, partnerId)]
            IN IF ~IsConnected(S2, partnerId)
               THEN Emit([S2 EXCEPT !.waitingQueue = SetAdd(@, c)], c, "waitingStranger", NoArg)
               ELSE LET strangerRoom == StrangerRoomName(nanoid(UsedIds(S2)))
                        S3 == SocketJoin(SocketJoin(S2, partnerId, strangerRoom), c, strangerRoom)
                        S4 == [S3 EXCEPT !.data[partnerId] =
                                  [strangerRoom |-> strangerRoom, partnerId |-> c]]
                        S5 == [S4 EXCEPT !.data[c] =
                                  [strangerRoom |-> strangerRoom, partnerId |-> partnerId]]
                    IN EmitRoom(S5, strangerRoom, "strangerFound", NoArg)
       ELSE Emit([S1 EXCEPT !.waitingQueue = SetAdd(@, c)], c, "waitingStranger", NoArg)

\* findStranger that forgets the requester when the candidate is gone
findStrangerDropsRequester(S, c) ==
    LET S1 == IF Truthy(S.data[c].strangerRoom) THEN handleStrangerLeave(S, c) ELSE S
    IN IF Len(S1.waitingQueue) > 0
       THEN LET partnerId == Head(S1.waitingQueue)
                S2 == [S1 EXCEPT !.waitingQueue = SetDelete(@, partnerId)]
            IN IF ~IsConnected(S2, partnerId)
               THEN Emit(S2, c, "waitingStranger", NoArg)
               ELSE LET strangerRoom == StrangerRoomName(nanoid(UsedIds(S2)))
                        S3 == SocketJoin(SocketJoin(S2, partnerId, strangerRoom), c, strangerRoom)
                        S4 == [S3 EXCEPT !.data[partnerId] =
                                  [strangerRoom |-> strangerRoom, partnerId |-> c]]
                        S5 == [S4 EXCEPT !.data[c] =
                                  [strangerRoom |-> strangerRoom, partnerId |-> partnerId]]
                    IN EmitRoom(S5, strangerRoom, "strangerFound", NoArg)
       ELSE Emit([S1 EXCEPT !.waitingQueue = SetAdd(@, c)], c, "waitingStranger", NoArg)

\* findStranger that, after tearing down the requester's link, makes the
\* requester wait instead of matching it at once
findStrangerWaitsAfterTeardown(S, c) ==
    LET S1 == IF Truthy(S.data[c].strangerRoom) THEN handleStrangerLeave(S, c) ELSE S
    IN IF Len(S1.waitingQueue) > 0 /\ ~Truthy(S.data[c].strangerRoom)
       THEN LET partnerId == Head(S1.waitingQueue)
                S2 == [S1 EXCEPT !.waitingQueue = SetDelete(@, partnerId)]
            IN IF ~IsConnected(S2, partnerId)
               THEN Emit([S2 EXCEPT !.waitingQueue = SetAdd(@, c)], c, "waitingStranger", NoArg)
               ELSE LET strangerRoom == StrangerRoomName(nanoid(UsedIds(S2)))
                        S3 == SocketJoin(SocketJoin(S2, partnerId, strangerRoom), c, strangerRoom)
                        S4 == [S3 EXCEPT !.data[partnerId] =
                                  [strangerRoom |-> strangerRoom, partnerId |-> c]]
                        S5 == [S4 EXCEPT !.data[c] =
                                  [strangerRoom |-> strangerRoom, partnerId |-> partnerId]]
                    IN EmitRoom(S5, strangerRoom, "strangerFound", NoArg)
       ELSE Emit([S1 EXCEPT !.waitingQueue = SetAdd(@, c)], c, "waitingStranger", NoArg)

findStranger(S, c) ==
    LET S1 == IF Truthy(S.data[c].strangerRoom) THEN handleStrangerLeave(S, c) ELSE S
    IN IF Len(S1.waitingQueue) > 0
       THEN LET partnerId == Head(S1.waitingQueue)
                S2 == [S1 EXCEPT !.waitingQueue = SetDelete(@, partnerId)]
            IN IF ~IsConnected(S2, partnerId)
               THEN Emit([S2 EXCEPT !.waitingQueue = SetAdd(@, c)], c, "waitingStranger", NoArg)
               ELSE LET strangerRoom == StrangerRoomName(nanoid(UsedIds(S2)))
                        S3 == SocketJoin(SocketJoin(S2, partnerId, strangerRoom), c, strangerRoom)
                        S4 == [S3 EXCEPT !.data[partnerId] =
                                  [strangerRoom |-> strangerRoom, partnerId |-> c]]
                        S5 == [S4 EXCEPT !.data[c] =
                                  [strangerRoom |-> strangerRoom, partnerId |-> partnerId]]
                    IN EmitRoom(S5, strangerRoom, "strangerFound", NoArg)
       ELSE Emit([S1 EXCEPT !.waitingQueue = SetAdd(@, c)], c, "waitingStranger", NoArg)

\* strangerMessage that emits with io.emit, to every connected socket
strangerMessageToEveryone(S, c, text, now) ==
    LET room == S.data[c].strangerRoom
        partnerId == S.data[c].partnerId
        all == SelectSeq([i \in 1..NumConns |-> i], LAMBDA d : IsConnected(S, d))
        msg == [id |-> nanoid(UsedIds(S)), username |-> UserName(c),
                text |-> safeText(text), ts |-> now]
    IN IF ~Truthy(room) \/ partnerId = NoId THEN S
       ELSE IF ~IsConnected(S, partnerId)
       THEN Emit(S, c, "systemMessage", PartnerGoneNotice)
       ELSE [S EXCEPT !.out = @ \o [i \in 1..Len(all) |-> Event(all[i], "strangerMessage", msg)]]

\* `now` is what Date.now() returns: wall-clock time, which may also step back
strangerMessage(S, c, text, now) ==
    LET room == S.data[c].strangerRoom
        partnerId == S.data[c].partnerId
    IN IF ~Truthy(room) \/ partnerId = NoId THEN S
       ELSE IF ~IsConnected(S, partnerId)
       THEN Emit(S, c, "systemMessage", PartnerGoneNotice)
       ELSE EmitRoom(S, room, "strangerMessage",
                     [id |-> nanoid(UsedIds(S)), username |-> UserName(c),
                      text |-> safeText(text), ts |-> now])

\* leaveStranger that answers a waiting socket without taking it out of the
\* waiting set
leaveStrangerKeepsWaiting(S, c) ==
    IF SeqHas(S.waitingQueue, c)
    THEN Emit(S, c, "youDisconnected", NoArg)
    ELSE IF Truthy(S.data[c].strangerRoom) THEN handleStrangerLeave(S, c)
    ELSE S

leaveStranger(S, c) ==
    IF SeqHas(S.waitingQueue, c)
    THEN Emit([S EXCEPT !.waitingQueue = SetDelete(@, c)], c, "youDisconnected", NoArg)
    ELSE IF Truthy(S.data[c].strangerRoom) THEN handleStrangerLeave(S, c)
    ELSE S

----------------------------------------------------------------------------
(* Group chat: the join, chatMessage and typing handlers.  An async handler  *)
(* is split at its awaits; a suspended handler is a task [h, c, msg].        *)

NoMsg == [id |-> 0]
Task(h, c, msg) == [h |-> h, c |-> c, msg |-> msg]
\* a suspended join keeps the `const safeRoom` of its call
JoinTask(c, sr) == [h |-> "join", c |-> c, msg |-> NoMsg, safeRoom |-> sr]
TaskCount(S) == BagCardinality(S.reads) + Len(S.writes)

HistoryCap == 30

\* a.filter(m => m.room === room)
FilterRoom(msgs, room) == SelectSeq(msgs, LAMBDA m : m.room = room)
\* a.sort((a, b) => a.ts - b.ts): Array.prototype.sort is stable
RECURSIVE SortByTs(_)
InsertByTs(sorted, m) ==
    LET k == Cardinality({i \in 1..Len(sorted) : sorted[i].ts <= m.ts})
    IN SubSeq(sorted, 1, k) \o <<m>> \o SubSeq(sorted, k + 1, Len(sorted))
SortByTs(msgs) ==
    IF msgs = <<>> THEN <<>>
    ELSE InsertByTs(SortByTs(SubSeq(msgs, 1, Len(msgs) - 1)), msgs[Len(msgs)])
\* a.slice(-n)
SliceLast(a, n) == IF Len(a) <= n THEN a ELSE SubSeq(a, Len(a) - n + 1, Len(a))

\* join that does not look whether the socket is in the room already
joinWithoutSameRoomCheck(S, c, room) ==
    LET sr == safeRoom(room)
        S1 == IF Truthy(S.currentRoom[c]) THEN leaveAndNotify(S, c) ELSE S
        S2 == joinRoom([S1 EXCEPT !.currentRoom[c] = sr], c, sr)
    IN [S2 EXCEPT !.reads = @ (+) SetToBag({JoinTask(c, sr)})]

\* socket.on('join'), up to `await db.read()`
join(S, c, room) ==
    LET sr == safeRoom(room)
    IN IF S.currentRoom[c] = sr THEN S
       ELSE LET S1 == IF Truthy(S.currentRoom[c]) THEN leaveAndNotify(S, c) ELSE S
                S2 == joinRoom([S1 EXCEPT !.currentRoom[c] = sr], c, sr)
            IN [S2 EXCEPT !.reads = @ (+) SetToBag({JoinTask(c, sr)})]

\* db.read() resolves: db.data is replaced by what the file holds
dbRead(S, t) == [S EXCEPT !.dbData = S.dbFile, !.reads = @ (-) SetToBag({t})]

\* the join that cuts the backlog to its length before it sorts it
joinAfterReadSlicesFirst(S, t) ==
    LET c == t.c
        S1 == dbRead(S, t)
        room == S1.currentRoom[c]
        history == SortByTs(SliceLast(FilterRoom(S1.dbData, room), HistoryCap))
        S2 == Emit(S1, c, "history", history)
        S3 == Emit(S2, c, "systemMessage", WelcomeNotice(c, room))
        S4 == EmitRoomExcept(S3, c, room, "systemMessage", JoinedNotice(c))
    IN EmitRoom(S4, room, "presence", Presence(S4, room))

\* socket.on('join'), after `await db.read()`
joinAfterRead(S, t) ==
    LET c == t.c
        S1 == dbRead(S, t)
        room == S1.currentRoom[c]
        history == SliceLast(SortByTs(FilterRoom(S1.dbData, room)), HistoryCap)
        S2 == Emit(S1, c, "history", history)
        S3 == Emit(S2, c, "systemMessage", WelcomeNotice(c, room))
        S4 == EmitRoomExcept(S3, c, room, "systemMessage", JoinedNotice(c))
    IN EmitRoom(S4, room, "presence", Presence(S4, room))

\* chatMessage that does not look whether the socket is in a room
chatMessageWithoutRoomCheck(S, c, text, now) ==
    LET msg == [id |-> nanoid(UsedIds(S)), username |-> UserName(c),
                room |-> S.currentRoom[c], text |-> safeText(text), ts |-> now]
    IN [S EXCEPT !.reads = @ (+) SetToBag({Task("chatMessage", c, msg)})]

\* socket.on('chatMessage'), up to `await db.read()`
chatMessage(S, c, text, now) ==
    IF ~Truthy(S.currentRoom[c]) THEN S
    ELSE LET msg == [id |-> nanoid(UsedIds(S)), username |-> UserName(c),
                     room |-> S.currentRoom[c], text |-> safeText(text), ts |-> now]
         IN [S EXCEPT !.reads = @ (+) SetToBag({Task("chatMessage", c, msg)})]

\* socket.on('chatMessage'), from `await db.read()` to `await db.write()`:
\* the write is handed what db.data holds at the call
chatAfterRead(S, t) ==
    LET S1 == dbRead(S, t)
        S2 == [S1 EXCEPT !.dbData = Append(@, t.msg)]
    IN [S2 EXCEPT !.writes = Append(@, [h |-> t.h, c |-> t.c, msg |-> t.msg,
                                        snap |-> S2.dbData])]

\* socket.on('chatMessage'), after `await db.write()`: the oldest write
\* reaches the file and its handler goes on
chatAfterWrite(S) ==
    LET w == Head(S.writes)
        S1 == [S EXCEPT !.dbFile = w.snap, !.writes = Tail(@)]
    IN EmitRoom(S1, S1.currentRoom[w.c], "chatMessage", w.msg)

\* socket.on('typing')
typing(S, c, isTyping) ==
    IF ~Truthy(S.currentRoom[c]) THEN S
    ELSE EmitRoomExcept(S, c, S.currentRoom[c], "typing",
                        [username |-> UserName(c), isTyping |-> Truthy(isTyping)])

----------------------------------------------------------------------------
(* Connection and disconnection. *)

\* connection that goes on to register the handlers of a socket it rejected
connectionWithoutReturn(S, c, sess) ==
    IF sess.user = Null
    THEN [Emit(S, c, "unauthorized", NoArg) EXCEPT !.status[c] = "connected"]
    ELSE [S EXCEPT !.status[c] = "connected"]

\* io.on('connection'): a socket without a session user is told so and closed
\* before any handler is registered
connection(S, c, sess) ==
    IF sess.user = Null
    THEN [Emit(S, c, "unauthorized", NoArg) EXCEPT !.status[c] = "rejected"]
    ELSE [S EXCEPT !.status[c] = "connected"]

\* Socket.IO closing a socket: it leaves every adapter room, is removed from
\* the namespace and is marked not connected; then 'disconnect' fires
onclose(S, c) == [S EXCEPT !.rooms[c] = {}, !.status[c] = "disconnected"]

\* socket.on('disconnect')
disconnect(S, c) ==
    LET S1 == IF Truthy(S.currentRoom[c]) THEN leaveAndNotify(S, c) ELSE S
        S2 == IF SeqHas(S1.waitingQueue, c)
              THEN [S1 EXCEPT !.waitingQueue = SetDelete(@, c)] ELSE S1
    IN IF Truthy(S2.data[c].strangerRoom) THEN handleStrangerLeave(S2, c) ELSE S2

----------------------------------------------------------------------------
(* Inputs. *)

\* the `room` of a join payload: absent, [], and a name longer than the cap
NamedRoomInputs == {Undefined, Str("a", RoomCap + 1)}
RoomInputs == NamedRoomInputs \cup {EmptyArray}
\* the text of a message: one longer than the cap
TextInputs == {Str("x", TextCap + 1)}
TypingInputs == {Undefined, Str("1", 1)}
Times == 0..MaxClock
ClientEvents == {"join", "chatMessage", "typing", "findStranger", "strangerMessage",
                 "leaveStranger"}

----------------------------------------------------------------------------
(* The state machine. *)

Init ==
    /\ status = [c \in Conns |-> "new"]
    /\ currentRoom = [c \in Conns |-> Null]
    /\ roomMembers = EmptyMap
    /\ rooms = [c \in Conns |-> {}]
    /\ waitingQueue = <<>>
    /\ data = [c \in Conns |-> NoData]
    /\ dbData = <<>>
    /\ dbFile = <<>>
    /\ reads = EmptyBag
    /\ writes = <<>>
    /\ out = <<>>
    /\ lastPresence = <<>>

\* socket ids are opaque: the sockets connect in the order of their ids
Connect(c) ==
    /\ status[c] = "new"
    /\ \A d \in Conns : d < c => status[d] # "new"
    /\ \E sess \in {NoSession, SessionOf(c)} : Commit(connection(St, c, sess))

\* an event from a socket that was rejected: no handler was registered
RejectedEvent(c) ==
    /\ status[c] = "rejected"
    /\ \E ev \in ClientEvents : Commit(St)

Disconnect(c) ==
    /\ status[c] = "connected"
    /\ Commit(disconnect(onclose(St, c), c))

FindStranger(c) ==
    /\ status[c] = "connected"
    /\ Commit(findStranger(St, c))

StrangerMessage(c) ==
    /\ status[c] = "connected"
    /\ \E text \in TextInputs, now \in Times : Commit(strangerMessage(St, c, text, now))

LeaveStranger(c) ==
    /\ status[c] = "connected"
    /\ Commit(leaveStranger(St, c))

Join(c, inputs, maxTasks) ==
    /\ status[c] = "connected"
    /\ \E room \in inputs :
          LET S == join(St, c, room)
          IN TaskCount(S) <= maxTasks /\ Commit(S)

JoinAfterRead ==
    \E t \in BagToSet(reads) : t.h = "join" /\ Commit(joinAfterRead(St, t))

ChatMessage(c, maxTasks, maxMsgs) ==
    /\ status[c] = "connected"
    /\ \E text \in TextInputs, now \in Times :
          LET S == chatMessage(St, c, text, now)
          IN /\ TaskCount(S) <= maxTasks
             /\ Cardinality(MsgsOf(S)) <= maxMsgs
             /\ Commit(S)

ChatAfterRead ==
    \E t \in BagToSet(reads) : t.h = "chatMessage" /\ Commit(chatAfterRead(St, t))

ChatAfterWrite ==
    /\ writes # <<>>
    /\ Commit(chatAfterWrite(St))

Typing(c) ==
    /\ status[c] = "connected"
    /\ \E isTyping \in TypingInputs : Commit(typing(St, c, isTyping))

Lifecycle(n) == \E c \in 1..n : Connect(c) \/ RejectedEvent(c) \/ Disconnect(c)
Stranger(n) == \E c \in 1..n : FindStranger(c) \/ StrangerMessage(c) \/ LeaveStranger(c)
Rooms(n, inputs, maxTasks) ==
    \/ \E c \in 1..n : Join(c, inputs, maxTasks) \/ Typing(c)
    \/ JoinAfterRead
Chat(n, maxTasks, maxMsgs) ==
    \/ \E c \in 1..n : ChatMessage(c, maxTasks, maxMsgs)
    \/ ChatAfterRead \/ ChatAfterWrite

\* the whole server
Next ==
    \/ Lifecycle(GroupConns) \/ Stranger(GroupConns)
    \/ Rooms(GroupConns, RoomInputs, FullTasks) \/ Chat(GroupConns, FullTasks, FullMsgs)
Spec == Init /\ [][Next]_vars

\* the stranger chat alone
NextStranger == Lifecycle(NumConns) \/ Stranger(NumConns)
SpecStranger == Init /\ [][NextStranger]_vars

\* the stranger chat started with a pool that still names sockets whose
\* connection is gone: the case findStranger guards against when
\* io.sockets.sockets.get(partnerId) is undefined.  (With the disconnect
\* handler run at every close, as in SpecStranger, the pool never names one.)
MaxStale == 2
InitStale ==
    /\ \E k \in 0..MaxStale :
          /\ status = [c \in Conns |-> IF c <= k THEN "disconnected" ELSE "new"]
          /\ waitingQueue \in {<<>>} \cup {<<a>> : a \in 1..k}
                              \cup {<<a, b>> : <<a, b>> \in {p \in (1..k) \X (1..k) : p[1] # p[2]}}
    /\ currentRoom = [c \in Conns |-> Null]
    /\ roomMembers = EmptyMap
    /\ rooms = [c \in Conns |-> {}]
    /\ data = [c \in Conns |-> NoData]
    /\ dbData = <<>>
    /\ dbFile = <<>>
    /\ reads = EmptyBag
    /\ writes = <<>>
    /\ out = <<>>
    /\ lastPresence = <<>>
SpecStale == InitStale /\ [][NextStranger]_vars

\* the stranger chat among sockets of which some sit in the default room
NextPairedInRoom ==
    \/ Lifecycle(NumConns) \/ Stranger(NumConns)
    \/ \E c \in 1..GroupConns : Join(c, {Undefined}, FullTasks)
    \/ JoinAfterRead
SpecPairedInRoom == Init /\ [][NextPairedInRoom]_vars

\* the stranger chat and the group chat of the default room side by side
NextSideBySide ==
    \/ Lifecycle(GroupConns) \/ Stranger(GroupConns)
    \/ Rooms(GroupConns, {Undefined}, FullTasks) \/ Chat(GroupConns, FullTasks, FullMsgs)
SpecSideBySide == Init /\ [][NextSideBySide]_vars

\* the rooms alone: nothing is ever written to the store
NextRooms == Lifecycle(GroupConns) \/ Rooms(GroupConns, RoomInputs, MaxTasks)
SpecRooms == Init /\ [][NextRooms]_vars

\* the rooms alone, with the presence event each client saw last on record
InitWatched ==
    /\ status = [c \in Conns |-> "new"]
    /\ currentRoom = [c \in Conns |-> Null]
    /\ roomMembers = EmptyMap
    /\ rooms = [c \in Conns |-> {}]
    /\ waitingQueue = <<>>
    /\ data = [c \in Conns |-> NoData]
    /\ dbData = <<>>
    /\ dbFile = <<>>
    /\ reads = EmptyBag
    /\ writes = <<>>
    /\ out = <<>>
    /\ lastPresence = [c \in Conns |-> NoArg]
SpecPresence == InitWatched /\ [][NextRooms]_vars

\* the rooms of a server that starts with messages in db.json: n messages of
\* earlier runs, every eighth of them of the room 'aaa...' and the others of
\* 'general', their timestamps ascending, descending or repeating in the order
\* of the file
StoredMsg(k, n, order) ==
    [id |-> k, username |-> UserName(1),
     room |-> IF k % 8 = 0 THEN Str("a", RoomCap) ELSE General,
     text |-> Str("x", 1),
     ts |-> IF order = "ascending" THEN k ELSE IF order = "descending" THEN n - k ELSE k % 3]
StoreLengths == 0..2 \cup (HistoryCap - 1)..(HistoryCap + StoreExtra)
StoreInputs ==
    {[k \in 1..n |-> StoredMsg(k, n, order)] :
        n \in StoreLengths, order \in {"ascending", "descending", "repeating"}}
InitBacklog ==
    /\ status = [c \in Conns |-> "new"]
    /\ currentRoom = [c \in Conns |-> Null]
    /\ roomMembers = EmptyMap
    /\ rooms = [c \in Conns |-> {}]
    /\ waitingQueue = <<>>
    /\ data = [c \in Conns |-> NoData]
    /\ dbFile \in StoreInputs
    /\ dbData = dbFile
    /\ reads = EmptyBag
    /\ writes = <<>>
    /\ out = <<>>
    /\ lastPresence = <<>>
NextBacklog == Lifecycle(BacklogConns) \/ Rooms(BacklogConns, NamedRoomInputs, MaxTasks)
SpecBacklog == InitBacklog /\ [][NextBacklog]_vars

\* the group chat with its store, in rooms with a name
NextChat ==
    \/ Lifecycle(GroupConns)
    \/ Rooms(GroupConns, NamedRoomInputs, MaxTasks) \/ Chat(GroupConns, MaxTasks, MaxMsgs)
SpecChat == Init /\ [][NextChat]_vars

----------------------------------------------------------------------------
(* Vocabulary of the properties. *)

\* the sockets to which `o` carries an event `ev`, and how many to socket c
Recipients(o, ev) == {o[i].to : i \in {j \in 1..Len(o) : o[j].ev = ev}}
CountTo(o, c, ev) == Cardinality({i \in 1..Len(o) : o[i].to = c /\ o[i].ev = ev})
EventNames(o) == {o[i].ev : i \in 1..Len(o)}

HasLink(c) == Truthy(data[c].strangerRoom)
IsWaiting(c) == SeqHas(waitingQueue, c)
IsIdle(c) == ~IsWaiting(c) /\ ~HasLink(c) /\ data[c].partnerId = NoId
Paired(a, b) ==
    /\ data[a].partnerId = b /\ data[b].partnerId = a
    /\ HasLink(a) /\ data[a].strangerRoom = data[b].strangerRoom
Live == {c \in Conns : status[c] = "connected"}
\* the rooms some socket is listed in, and the rooms some closure names
RoomNames == DOMAIN roomMembers \cup {currentRoom[c] : c \in Conns}
MembersOf(rm, r) == IF MapHas(rm, r) THEN rm[r] ELSE {}

----------------------------------------------------------------------------
(* The stranger chat. *)

\* C1: between handler steps the pairing links are symmetric: if socket a's
\* partnerId is b then b's partnerId is a and both hold the same
\* strangerRoom; and a socket has a partnerId exactly when it has a
\* strangerRoom.
C1_PairingSymmetry ==
    \A a \in Conns :
        /\ (data[a].partnerId # NoId) <=> HasLink(a)
        /\ data[a].partnerId # NoId =>
              LET b == data[a].partnerId
              IN /\ b \in Live
                 /\ data[b].partnerId = a
                 /\ data[b].strangerRoom = data[a].strangerRoom

\* two different live sockets have just been paired while a third is idle
C1_Witness ==
    \E a, b \in Live : a # b /\ Paired(a, b) /\ CountTo(out, a, "strangerFound") = 1
                          /\ \E d \in Live \ {a, b} : IsIdle(d)

\* C2: a pairing link binds two distinct sockets: no socket's partnerId is
\* its own id, also when findStranger comes from a socket that is waiting.
C2_NoSelfPairing == \A c \in Conns : data[c].partnerId # c

\* C3: no socket is both in waitingQueue and the holder of a pairing link.
C3_PoolLinkExclusive == \A c \in Conns : ~(IsWaiting(c) /\ HasLink(c))

\* a pair exists while a third socket waits
C3_Witness ==
    \E a, b, w \in Live : a # b /\ Paired(a, b) /\ w \notin {a, b} /\ IsWaiting(w)

\* C8: findStranger from an idle socket b.  With a live socket a in the
\* pool: a leaves the pool, a and b become each other's partner, and a and b,
\* and nobody else, receive strangerFound (once each, and nothing else is
\* emitted).  With the pool empty: b enters the pool, receives
\* waitingStranger only, and no link is created.
C8_Matching ==
    [][\A b \in Conns :
          (IsIdle(b) /\ FindStranger(b)) =>
             IF waitingQueue # <<>> /\ IsConnected(St, Head(waitingQueue))
             THEN LET a == Head(waitingQueue)
                  IN /\ ~SeqHas(waitingQueue', a)
                     /\ ~SeqHas(waitingQueue', b)
                     /\ a # b
                     /\ data'[a].partnerId = b /\ data'[b].partnerId = a
                     /\ Truthy(data'[a].strangerRoom)
                     /\ data'[a].strangerRoom = data'[b].strangerRoom
                     /\ \A d \in Conns \ {a, b} :
                           data'[d] = data[d] /\ data'[d].strangerRoom # data'[a].strangerRoom
                     /\ Len(out') = 2
                     /\ \A d \in {a, b} : CountTo(out', d, "strangerFound") = 1
             ELSE /\ waitingQueue = <<>>
                  /\ waitingQueue' = <<b>>
                  /\ out' = <<Event(b, "waitingStranger", NoArg)>>
                  /\ data' = data
      ]_vars

\* an idle socket has just been matched with the socket that waited
C8_Witness ==
    \E a, b \in Live :
        /\ a # b /\ Paired(a, b)
        /\ Len(out) = 2 /\ Recipients(out, "strangerFound") = {a, b}
        /\ waitingQueue = <<>>

\* the pairing rooms among the adapter rooms of socket c
StrangerRoomsOf(rm, c) == {r \in rm[c] : \E k \in 1..(NumConns + MaxMsgs + 1) : r = StrangerRoomName(k)}

\* C11: a socket a that holds a link leaves it by leaveStranger, by
\* findStranger or by disconnecting.  The first event of the step is
\* youDisconnected to a; its live partner b receives strangerLeft once, ends
\* with strangerRoom and partnerId null, outside the pairing room and outside
\* the pool, and a leaveStranger from b would then change and emit nothing.
\* After leaveStranger and disconnect a holds nothing either and the pool is
\* as it was.  After findStranger the old link is gone before the new one
\* exists: whatever link a holds is with the socket that waited, nobody else
\* names a as partner, and a is in no pairing room but that of its link.
C11_Teardown ==
    [][\A a \in Conns :
          LET b == data[a].partnerId
              old == data[a].strangerRoom
              leaves == LeaveStranger(a) \/ Disconnect(a)
          IN (HasLink(a) /\ (leaves \/ FindStranger(a))) =>
                /\ Len(out') >= 1 /\ out'[1] = Event(a, "youDisconnected", NoArg)
                /\ CountTo(out', a, "youDisconnected") = 1
                /\ (b # a /\ b \in Live) =>
                      /\ Len(out') >= 2 /\ out'[2] = Event(b, "strangerLeft", NoArg)
                      /\ CountTo(out', b, "strangerLeft") = 1
                      /\ data'[b] = NoData
                      /\ StrangerRoomsOf(rooms', b) = {}
                      /\ ~SeqHas(waitingQueue', b)
                      /\ leaveStranger(St', b) = St'
                /\ leaves =>
                      /\ data'[a] = NoData
                      /\ old \notin rooms'[a]
                      /\ waitingQueue' = waitingQueue
                      /\ Len(out') = (IF b \in Live' THEN 2 ELSE 1)
                      /\ \A d \in Conns \ {a, b} : data'[d] = data[d]
                /\ FindStranger(a) =>
                      /\ \A d \in Conns : data'[d].partnerId = a => data'[a].partnerId = d
                      /\ StrangerRoomsOf(rooms', a) = {data'[a].strangerRoom} \ {Null}
                      /\ IF waitingQueue = <<>>
                         THEN data'[a] = NoData /\ waitingQueue' = <<a>>
                         ELSE /\ data'[a].partnerId = Head(waitingQueue)
                              /\ data'[a].partnerId # b
                              /\ waitingQueue' = Tail(waitingQueue)
      ]_vars

\* a socket that was paired has asked again: its partner was told that it
\* left and is idle, and it is now paired with the socket that waited
C11_Witness ==
    \E a, b, p \in Live :
        /\ a # b /\ p \notin {a, b}
        /\ Len(out) = 4
        /\ out[1] = Event(a, "youDisconnected", NoArg)
        /\ out[2] = Event(b, "strangerLeft", NoArg)
        /\ Paired(a, p) /\ IsIdle(b)

\* IDLE (not in the pool, no link), WAITING (in the pool) or PAIRED
PairingState(c) ==
    IF IsWaiting(c) THEN "WAITING" ELSE IF HasLink(c) THEN "PAIRED" ELSE "IDLE"
CycleEdges ==
    {<<"IDLE", "WAITING">>, <<"WAITING", "PAIRED">>, <<"PAIRED", "IDLE">>, <<"WAITING", "IDLE">>}

\* C12: every step moves a socket only along IDLE -> WAITING,
\* WAITING -> PAIRED, PAIRED -> IDLE or WAITING -> IDLE, or leaves its
\* pairing state unchanged.
C12_StateMachine ==
    [][\A c \in Conns :
          \/ PairingState(c)' = PairingState(c)
          \/ <<PairingState(c), PairingState(c)'>> \in CycleEdges
      ]_vars

\* C12 as the handlers have it: besides the four edges, the socket that
\* emits findStranger goes from IDLE straight to PAIRED when a socket waits
\* (it never enters the pool), and from PAIRED to WAITING when it asks again
\* while nobody waits; a socket moved by another socket's step goes only
\* WAITING -> PAIRED or PAIRED -> IDLE.
C12_StateMachineOfHandlers ==
    [][\A c \in Conns :
          LET edge == <<PairingState(c), PairingState(c)'>>
          IN \/ edge[1] = edge[2]
             \/ edge \in CycleEdges /\ (FindStranger(c) \/ LeaveStranger(c) \/ Disconnect(c))
             \/ edge \in {<<"WAITING", "PAIRED">>, <<"PAIRED", "IDLE">>}
             \/ edge = <<"IDLE", "PAIRED">> /\ FindStranger(c)
                  /\ waitingQueue # <<>> /\ data'[c].partnerId = Head(waitingQueue)
             \/ edge = <<"PAIRED", "WAITING">> /\ FindStranger(c) /\ waitingQueue = <<>>
      ]_vars

\* a paired socket has asked again while nobody waited: it was told that it
\* disconnected, its partner that it left, and it is in the pool
C12_Witness ==
    \E a, b \in Live :
        /\ a # b
        /\ out = <<Event(a, "youDisconnected", NoArg), Event(b, "strangerLeft", NoArg),
                   Event(a, "waitingStranger", NoArg)>>
        /\ PairingState(a) = "WAITING" /\ PairingState(b) = "IDLE"

PairingEvents == {"waitingStranger", "strangerFound", "strangerLeft", "youDisconnected",
                  "strangerMessage"}

\* C13: leaveStranger from a socket that waits and holds no link takes it out
\* of the pool, emits youDisconnected to it and nothing else, and changes no
\* link; the disconnect of such a socket takes it out of the pool and emits
\* no pairing event.  Nobody else enters or leaves the pool in either step.
C13_CancelWhileWaiting ==
    [][\A c \in Conns :
          (IsWaiting(c) /\ ~HasLink(c) /\ (LeaveStranger(c) \/ Disconnect(c))) =>
             /\ ~SeqHas(waitingQueue', c)
             /\ \A d \in Conns \ {c} : SeqHas(waitingQueue', d) <=> SeqHas(waitingQueue, d)
             /\ data' = data
             /\ \A d \in Conns \ {c} : rooms'[d] = rooms[d]
             /\ LeaveStranger(c) => out' = <<Event(c, "youDisconnected", NoArg)>>
             /\ Disconnect(c) => EventNames(out') \cap PairingEvents = {}
      ]_vars

\* a waiting socket has just cancelled while two others are paired
C13_Witness ==
    \E c \in Live :
        /\ out = <<Event(c, "youDisconnected", NoArg)>>
        /\ IsIdle(c) /\ waitingQueue = <<>>
        /\ \E a, b \in Live \ {c} : a # b /\ Paired(a, b)

\* C14: findStranger from socket b takes from the pool a candidate whose
\* socket is gone.  The candidate leaves the pool, b is in the pool (at the
\* end, unless it was there) and the last event is waitingStranger to b; no
\* link is created; the other pool entries stay where they were, none is
\* tried; and the handler ends normally.  If b held no link nothing else is
\* emitted and no socket.data changes.
C14_StaleCandidate ==
    [][\A b \in Conns :
          LET q == waitingQueue
              rest == Tail(q)
          IN (FindStranger(b) /\ q # <<>> /\ ~IsConnected(St, Head(q))) =>
                /\ waitingQueue' = (IF SeqHas(rest, b) THEN rest ELSE Append(rest, b))
                /\ Head(q) # b /\ ~SeqHas(waitingQueue', Head(q))
                /\ Len(out') >= 1 /\ out'[Len(out')] = Event(b, "waitingStranger", NoArg)
                /\ CountTo(out', b, "waitingStranger") = 1
                /\ "strangerFound" \notin EventNames(out')
                /\ \A d \in Conns : data'[d] = NoData \/ data'[d] = data[d]
                /\ data'[b] = NoData
                /\ ~HasLink(b) => (Len(out') = 1 /\ data' = data /\ rooms' = rooms)
      ]_vars

\* the first of two stale pool entries has just been dropped for a live
\* requester, which waits behind the second
C14_Witness ==
    \E s \in Conns, b \in Live :
        /\ status[s] = "disconnected"
        /\ waitingQueue = <<s, b>>
        /\ out = <<Event(b, "waitingStranger", NoArg)>>
        /\ data[b] = NoData

\* C15: a strangerMessage from socket a changes nothing (the store, the
\* rooms, the pool, the links), and emits nothing unless a holds a link; when
\* a is paired with b, one strangerMessage event, with a's name and the text
\* cut to the cap, goes to a and to b, once each, and to no other socket,
\* whatever group room they share with a or b.
C15_StrangerMessageConfined ==
    [][\A a \in Conns :
          StrangerMessage(a) =>
             /\ St' = St
             /\ IF ~HasLink(a) THEN out' = <<>>
                ELSE LET b == data[a].partnerId
                     IN /\ Recipients(out', "strangerMessage") = {a, b}
                        /\ Len(out') = Cardinality({a, b})
                        /\ \A i \in 1..Len(out') :
                              /\ out'[i].ev = "strangerMessage"
                              /\ out'[i].arg = out'[1].arg
                              /\ out'[i].arg.username = UserName(a)
                              /\ out'[i].arg.text = Str("x", TextCap)
      ]_vars

\* a message has just gone to the two sockets of a pair, and a third socket,
\* which did not get it, shares the group room of one of them
C15_Witness ==
    \E a, b \in Live :
        /\ a # b /\ Paired(a, b)
        /\ Len(out) = 2 /\ Recipients(out, "strangerMessage") = {a, b}
        /\ \E d \in Live \ {a, b} :
              /\ currentRoom[d] = General /\ currentRoom[a] = General
              /\ General \in rooms[d] \cap rooms[a]
              /\ {a, d} \subseteq MembersOf(roomMembers, General)

----------------------------------------------------------------------------
(* The rooms and the connection lifecycle. *)

\* C4: for every room name r, getUserCount(r) is the number of live sockets
\* whose currentRoom is r, and so a socket id is in at most one room's
\* member set; also while handlers are suspended on the store.
C4_RoomMembershipConsistent ==
    /\ \A r \in RoomNames \ {Null} :
          getUserCount(St, r) = Cardinality({c \in Live : currentRoom[c] = r})
    /\ \A c \in Conns : Cardinality({r \in DOMAIN roomMembers : c \in roomMembers[r]}) <= 1

\* C5: once a socket's disconnect handler has run nothing refers to it: it is
\* in no room's member set, not in waitingQueue, and no live socket's
\* partnerId is its id; so the partner of a live socket is always live.
C5_NoDanglingReferences ==
    /\ \A c \in Conns :
          status[c] = "disconnected" =>
             /\ \A r \in DOMAIN roomMembers : c \notin roomMembers[r]
             /\ ~IsWaiting(c)
             /\ \A d \in Live : data[d].partnerId # c
    /\ \A d \in Live : data[d].partnerId # NoId => data[d].partnerId \in Live

\* C6: the disconnect handler run a second time for the same socket changes
\* nothing and emits nothing, whatever state the socket was in.
C6_DisconnectIdempotent ==
    \A c \in Live :
        LET once == [disconnect(onclose(St, c), c) EXCEPT !.out = <<>>]
        IN disconnect(once, c) = once

\* what a socket that never got past the connection handler must not have
HoldsNoState(S, c) ==
    /\ \A r \in DOMAIN S.roomMembers : c \notin S.roomMembers[r]
    /\ ~SeqHas(S.waitingQueue, c)
    /\ S.data[c] = NoData /\ S.rooms[c] = {} /\ S.currentRoom[c] = Null
    /\ \A d \in Conns : S.data[d].partnerId # c
    /\ \A t \in BagToSet(S.reads) : t.c # c
    /\ \A i \in 1..Len(S.writes) : S.writes[i].c # c

\* the handlers of socket c, had they been registered
HandlersOf(c) ==
    \/ Join(c, RoomInputs, FullTasks) \/ ChatMessage(c, FullTasks, FullMsgs) \/ Typing(c)
    \/ FindStranger(c) \/ StrangerMessage(c) \/ LeaveStranger(c) \/ Disconnect(c)

\* C7: a socket accepted without a session user receives 'unauthorized' and
\* nothing else, is closed, and never appears in roomMembers, waitingQueue or
\* a pairing link; no handler answers its events, which change nothing and
\* emit nothing.
C7_Unauthorized ==
    [][\A c \in Conns :
          /\ CountTo(out', c, "unauthorized") > 0 =>
                status'[c] = "rejected" /\ out' = <<Event(c, "unauthorized", NoArg)>>
          /\ (status[c] = "new" /\ status'[c] = "rejected") =>
                out' = <<Event(c, "unauthorized", NoArg)>>
          /\ status'[c] = "rejected" => HoldsNoState(St', c)
          /\ status[c] = "rejected" =>
                /\ status'[c] = "rejected"
                /\ ~ENABLED HandlersOf(c)
                /\ RejectedEvent(c) => St' = St
      ]_vars

\* a socket has just been rejected while another one sits in a room
C7_Witness ==
    \E c \in Conns :
        /\ status[c] = "rejected" /\ out = <<Event(c, "unauthorized", NoArg)>>
        /\ \E d \in Live : currentRoom[d] # Null /\ d \in MembersOf(roomMembers, currentRoom[d])

\* C9: a chatMessage that socket x sent while in room r reaches every member
\* of r once, with room field r, and nobody outside r, whatever was handled
\* while the message waited on the store.
C9_GroupDelivery ==
    [][(writes # <<>> /\ ChatAfterWrite) =>
          LET m == Head(writes).msg
              members == MembersOf(roomMembers, m.room)
          IN /\ Recipients(out', "chatMessage") = members
             /\ \A c \in members : CountTo(out', c, "chatMessage") = 1
             /\ \A i \in 1..Len(out') : out'[i].arg = m
      ]_vars

\* C10: when socket x in room A joins another room B, x leaves A's member
\* set, the members left in A receive the left notice and a presence event
\* whose count excludes x (A goes from the directory when x was the last), x
\* receives neither, and afterwards x is counted in B and its currentRoom is B.
C10_RoomSwitch ==
    [][\A x \in Conns, room \in RoomInputs :
          LET A == currentRoom[x]
              B == safeRoom(room)
              rest == MembersOf(roomMembers, A) \ {x}
          IN (IsString(A) /\ A # B /\ Join(x, {room}, MaxTasks)) =>
                /\ x \notin MembersOf(roomMembers', A)
                /\ rest = {} => ~MapHas(roomMembers', A)
                /\ \A d \in rest :
                      /\ Cardinality({i \in 1..Len(out') :
                            out'[i] = Event(d, "systemMessage", LeftNotice(x))}) = 1
                      /\ Cardinality({i \in 1..Len(out') :
                            out'[i] = Event(d, "presence",
                                            [room |-> A, count |-> Cardinality(rest)])}) = 1
                /\ \A i \in 1..Len(out') : out'[i].to # x
                /\ x \in MembersOf(roomMembers', B)
                /\ currentRoom'[x] = B
      ]_vars

C16_EmptyRoomsDestroyed ==
    [][/\ \A r \in DOMAIN roomMembers' : roomMembers'[r] # {}
       /\ \A c \in Conns, r \in DOMAIN roomMembers :
             (/\ roomMembers[r] = {c}
              /\ \/ Disconnect(c)
                 \/ \E room \in RoomInputs : safeRoom(room) # r /\ Join(c, {room}, MaxTasks))
             => (~MapHas(roomMembers', r) /\ getUserCount(St', r) = 0)
      ]_vars

\* the backlog of room r in the store: its 30 latest messages, oldest first
Backlog(file, r) == SliceLast(SortByTs(FilterRoom(file, r)), HistoryCap)
\* the positions of out at which event e stands
PositionsOf(o, e) == {i \in 1..Len(o) : o[i] = e}

\* C17: when the join of a live socket x to room r resumes after the read of
\* the store, x receives the history event with r's backlog, then the
\* welcome that names r, then the presence event for r; every other member
\* of r receives one joined notice for x and after it that presence event;
\* nothing else is emitted.  Also when x sent another join meanwhile.
C17_JoinNotifications ==
    [][\A t \in BagToSet(reads) :
          (t.h = "join" /\ status[t.c] = "connected" /\ Commit(joinAfterRead(St, t))) =>
             LET x == t.c
                 r == t.safeRoom
                 others == MembersOf(roomMembers, r) \ {x}
                 presence == [room |-> r, count |-> getUserCount(St, r)]
             IN /\ Len(out') = 3 + 2 * Cardinality(others)
                /\ out'[1] = Event(x, "history", Backlog(dbFile, r))
                /\ out'[2] = Event(x, "systemMessage", WelcomeNotice(x, r))
                /\ \E i \in 3..Len(out') : out'[i] = Event(x, "presence", presence)
                /\ \A d \in others :
                      \E i, j \in 3..Len(out') :
                         /\ i < j
                         /\ PositionsOf(out', Event(d, "systemMessage", JoinedNotice(x))) = {i}
                         /\ PositionsOf(out', Event(d, "presence", presence)) = {j}
      ]_vars

\* event e carries the name of socket x as its author
AttributedTo(e, x) ==
    /\ e.ev \in {"systemMessage", "chatMessage", "typing"}
    /\ "username" \in DOMAIN e.arg
    /\ e.arg.username = UserName(x)

\* C18: socket x has disconnected from room r and the left notice for x has
\* been broadcast to r.  No later step sends another socket a joined notice
\* for x or any other event in x's name, also when the disconnect came while
\* x's join to r waited for the read of the store.
C18_NoJoinNoticeAfterDeparture ==
    [][\A x \in Conns :
          (status[x] = "disconnected" /\ Truthy(currentRoom[x])) =>
             \A i \in 1..Len(out') : out'[i].to # x => ~AttributedTo(out'[i], x)
      ]_vars

\* C19: every presence event carries the getUserCount of its room, and while
\* no join waits for the read of the store the presence event that each live
\* socket in a room saw last is that of its room, with the room's member
\* count.
C19_PresenceConverges ==
    /\ \A i \in 1..Len(out) :
          out[i].ev = "presence" => out[i].arg.count = getUserCount(St, out[i].arg.room)
    /\ (\A t \in BagToSet(reads) : t.h # "join") =>
          \A c \in Live :
             IsString(currentRoom[c]) =>
                lastPresence[c] = [room |-> currentRoom[c],
                                   count |-> getUserCount(St, currentRoom[c])]

\* C20: a chatMessage is in the store when it is broadcast, and no later
\* step takes a broadcast message out of the store, however the reads and
\* writes of concurrent chatMessage and join handlers interleave.  (A message
\* reaches db.json in the step that broadcasts it, so the messages of dbFile
\* are the broadcast ones.)
C20_NoLostHistory ==
    [][/\ (writes # <<>> /\ ChatAfterWrite) => SeqHas(dbFile', Head(writes).msg)
       /\ \A i \in 1..Len(dbFile) : SeqHas(dbFile', dbFile[i])
      ]_vars

\* C22: a typing event from socket x in room r reaches every other live
\* member of r once and nobody else, x included, and changes nothing: not the
\* store, not roomMembers, currentRoom, waitingQueue or a pairing link.
C22_TypingTransient ==
    [][\A x \in Conns :
          (IsString(currentRoom[x]) /\ Typing(x)) =>
             LET others == (MembersOf(roomMembers, currentRoom[x]) \cap Live) \ {x}
             IN /\ Recipients(out', "typing") = others
                /\ Len(out') = Cardinality(others)
                /\ \A i \in 1..Len(out') :
                      out'[i].ev = "typing" /\ out'[i].arg.username = UserName(x)
                /\ St' = St
      ]_vars

\* C23: a chatMessage or a typing event from a socket whose currentRoom is
\* null emits nothing and changes nothing: no handler is left waiting on the
\* store and the store stays as it is.
C23_NoRoomNoEffect ==
    [][\A x \in Conns :
          (currentRoom[x] = Null /\ (ChatMessage(x, MaxTasks, MaxMsgs) \/ Typing(x))) =>
             (out' = <<>> /\ St' = St)
      ]_vars

\* nothing was emitted in the last step, while one socket has no room and
\* another sits in a room whose messages are in the store
C23_Witness ==
    /\ out = <<>> /\ reads = EmptyBag /\ writes = <<>> /\ dbFile # <<>>
    /\ \E x, d \in Live : currentRoom[x] = Null /\ Truthy(currentRoom[d])

\* C24: a join to the room the socket is in, a leaveStranger from a socket
\* that neither waits nor holds a link, and handleStrangerLeave for a socket
\* whose link is torn down already, change nothing (roomMembers,
\* waitingQueue and the links among the rest) and emit nothing.
C24_RedundantNoOps ==
    [][\A x \in Conns :
          /\ (currentRoom[x] = safeRoom(Undefined) /\ Join(x, {Undefined}, FullTasks)) =>
                (out' = <<>> /\ St' = St)
          /\ (~IsWaiting(x) /\ ~HasLink(x) /\ LeaveStranger(x)) =>
                (out' = <<>> /\ St' = St)
          /\ ~Truthy(data'[x].strangerRoom) => handleStrangerLeave(St', x) = St'
      ]_vars

\* a link has just been torn down between two sockets of which the leaver
\* sits in the room 'general'
C24_Witness ==
    \E a, b \in Live :
        /\ a # b
        /\ out = <<Event(a, "youDisconnected", NoArg), Event(b, "strangerLeft", NoArg)>>
        /\ IsIdle(a) /\ IsIdle(b)
        /\ currentRoom[a] = General /\ a \in MembersOf(roomMembers, General)

\* the adapter rooms of socket c that are not pairing rooms
GroupRoomsOf(rm, c) == rm[c] \ StrangerRoomsOf(rm, c)

\* C25: no step of the join and chatMessage handlers changes waitingQueue or
\* a socket's strangerRoom and partnerId, and no step of findStranger,
\* strangerMessage and leaveStranger changes roomMembers, a socket's
\* currentRoom or the group rooms it has joined, the store or the handlers
\* that wait on it: a link is made and torn down around a socket that stays
\* in its room.  Stated from the change: a step that changes the pairing
\* state is no step of the room handlers, and a step that changes the room
\* state is no step of the pairing handlers.
C25_RoomsPairingIndependent ==
    [][/\ (\/ waitingQueue' # waitingQueue \/ data' # data
           \/ \E c \in Conns : StrangerRoomsOf(rooms', c) # StrangerRoomsOf(rooms, c))
          => ~(\/ \E c \in Conns : Join(c, RoomInputs, FullTasks)
               \/ \E c \in Conns : ChatMessage(c, FullTasks, FullMsgs)
               \/ JoinAfterRead \/ ChatAfterRead \/ ChatAfterWrite)
       /\ (\/ roomMembers' # roomMembers \/ currentRoom' # currentRoom
           \/ \E c \in Conns : GroupRoomsOf(rooms', c) # GroupRoomsOf(rooms, c)
           \/ dbData' # dbData \/ dbFile' # dbFile \/ reads' # reads \/ writes' # writes)
          => ~(\E c \in Conns : FindStranger(c) \/ StrangerMessage(c) \/ LeaveStranger(c))
      ]_vars

\* a chat message has just been broadcast in the room of two sockets that
\* are paired with each other
C25_Witness ==
    \E a, b \in Live :
        /\ a # b /\ Paired(a, b)
        /\ currentRoom[a] = currentRoom[b] /\ Truthy(currentRoom[a])
        /\ {a, b} \subseteq MembersOf(roomMembers, currentRoom[a])
        /\ Recipients(out, "chatMessage") = {a, b}

\* C26: waitingQueue never holds more than one socket id, whatever sequence
\* of findStranger, leaveStranger and disconnect events the sockets send; and
\* a step that puts a socket into waitingQueue leaves it the only one there.
C26_PoolAtMostOne ==
    /\ []( Len(waitingQueue) <= 1 )
    /\ [][\A c \in Conns : (~IsWaiting(c) /\ SeqHas(waitingQueue', c)) => waitingQueue' = <<c>>]_vars

\* a socket has just left its partner with findStranger and waits, the pool
\* having been empty, while its former partner is idle again
C26_Witness ==
    \E a, b \in Live :
        /\ a # b /\ waitingQueue = <<a>> /\ IsIdle(b) /\ ~HasLink(a)
        /\ EventNames(out) = {"youDisconnected", "strangerLeft", "waitingStranger"}
        /\ Recipients(out, "waitingStranger") = {a} /\ Recipients(out, "strangerLeft") = {b}

====
